---- MODULE Spec2Model ----
(***************************************************************************)
(* Governance pipeline of the GenAI multi-agent governance backend:        *)
(* PromptGuardAgent (risk screener), PolicyEnforcerAgent, the generator    *)
(* and moderation calls of AWSService, OutputAuditorAgent, AdvisoryAgent,  *)
(* AuditLoggerAgent and the request handler process_genai_request.         *)
(*                                                                         *)
(* Numbers: every score is a fixed-point integer counted in 1/800, so      *)
(* 1.0 is 800, 0.1 is 80, 0.25 is 200, 0.8 is 640.  800 is the smallest    *)
(* denominator in which every weight, step and threshold of the screener   *)
(* and the auditor is an integer; arithmetic is exact (binary rounding of  *)
(* Python floats is not modelled).                                         *)
(*                                                                         *)
(* Text: a prompt or a response is a sequence of phrases of a fixed        *)
(* vocabulary, standing for the phrases joined by single spaces.  The      *)
(* Python test `term in text.lower()` is the lookup of the term in the     *)
(* occurrence table of one of the phrases; the tables list, per phrase,    *)
(* exactly the terms of the source's lists that are substrings of the      *)
(* lower-cased phrase (no term spans two phrases of the vocabulary).       *)
(***************************************************************************)
EXTENDS Integers, Sequences, FiniteSets, TLC

(***************************************************************************)
(* Bounds                                                                  *)
(***************************************************************************)
MaxPromptLen == 2
MaxResponseLen == 2

(***************************************************************************)
(* Generic helpers                                                         *)
(***************************************************************************)
Min(a, b) == IF a <= b THEN a ELSE b

Max(a, b) == IF a >= b THEN a ELSE b

MaxOf(S) == CHOOSE x \in S : \A y \in S : y <= x

RECURSIVE SumOver(_, _)
SumOver(f, S) ==
  IF S = {} THEN 0
  ELSE LET x == CHOOSE y \in S : TRUE IN f[x] + SumOver(f, S \ {x})

Range(s) == {s[i] : i \in 1..Len(s)}

SeqsUpTo(S, n) == UNION {[1..k -> S] : k \in 0..n}

(***************************************************************************)
(* Fixed-point constants of the screener                                   *)
(***************************************************************************)
One == 800
KeywordStep == 80
PiiStep == 240
ComplianceStep == 160
LegitimateScore == 80
HighThreshold == 640
MediumThreshold == 400
NoCategoriesScore == 400
ConfidenceHigh == 720
ConfidenceLow == 560
ModerationDefaultConfidence == 760

(***************************************************************************)
(* Prompt vocabulary and its occurrence tables                             *)
(***************************************************************************)
PromptPhrases ==
  { "What is the weather today?",
    "Heart Attack Symptoms",
    "asthma attack treatment",
    "how to hack with malware",
    "my ssn is 123-45-6789",
    "medical diagnosis and health treatment",
    "insider trading fraud",
    "mail a@b.co or call 555-123-4567",
    "personal data",
    "write marketing content on phishing" }

\* terms of the source's keyword lists occurring in lower(phrase)
PromptOccurs ==
  ("What is the weather today?" :> {}) @@
  ("Heart Attack Symptoms" :> {"heart attack symptoms", "symptoms"}) @@
  ("asthma attack treatment" :> {"asthma attack treatment", "treatment"}) @@
  ("how to hack with malware" :> {"hack", "malware"}) @@
  ("my ssn is 123-45-6789" :> {"ssn"}) @@
  ("medical diagnosis and health treatment" :>
      {"diagnosis", "health", "medical", "treatment"}) @@
  ("insider trading fraud" :> {"fraud", "insider trading", "trading"}) @@
  ("mail a@b.co or call 555-123-4567" :> {}) @@
  ("personal data" :> {"personal", "personal data"}) @@
  ("write marketing content on phishing" :>
      {"phishing", "write marketing content"})

PiiTypes == {"email", "ssn", "phone", "credit_card"}

NoPii == [t \in PiiTypes |-> 0]

\* number of matches re.findall finds for each pattern in the phrase
PromptPiiMatches ==
  ("What is the weather today?" :> NoPii) @@
  ("Heart Attack Symptoms" :> NoPii) @@
  ("asthma attack treatment" :> NoPii) @@
  ("how to hack with malware" :> NoPii) @@
  ("my ssn is 123-45-6789" :> [NoPii EXCEPT !["ssn"] = 1]) @@
  ("medical diagnosis and health treatment" :> NoPii) @@
  ("insider trading fraud" :> NoPii) @@
  ("mail a@b.co or call 555-123-4567" :>
      [NoPii EXCEPT !["email"] = 1, !["phone"] = 1]) @@
  ("personal data" :> NoPii) @@
  ("write marketing content on phishing" :> NoPii)


\* `term in prompt_lower`
InPrompt(term, prompt) ==
  \E i \in 1..Len(prompt) : term \in PromptOccurs[prompt[i]]

\* len(re.findall(pattern, prompt)) for one PII type
RECURSIVE PiiCount(_, _)
PiiCount(t, prompt) ==
  IF prompt = <<>> THEN 0
  ELSE PromptPiiMatches[Head(prompt)][t] + PiiCount(t, Tail(prompt))

(***************************************************************************)
(* PromptGuardAgent: static tables                                         *)
(***************************************************************************)
RiskCategoryNames ==
  {"privacy", "security", "harmful_content", "regulatory", "ethical"}

risk_categories ==
  [ privacy |->
      {"ssn", "social security", "credit card", "password", "email address",
       "phone number", "address", "date of birth", "medical record",
       "patient data", "financial data", "bank account"},
    security |->
      {"hack", "exploit", "vulnerability", "backdoor", "malware", "phishing",
       "ddos", "sql injection", "xss", "buffer overflow"},
    harmful_content |->
      {"harm", "hurt", "kill", "suicide", "self-harm", "violence", "weapon",
       "bomb", "terrorism", "hate speech", "discrimination"},
    regulatory |->
      {"insider trading", "market manipulation", "fraud", "money laundering",
       "tax evasion", "copyright infringement", "patent violation"},
    ethical |->
      {"bias", "discrimination", "stereotype", "prejudice", "racism",
       "sexism", "ageism", "ableism"} ]

gdpr_data_types == {"personal data", "sensitive data", "biometric data"}

hipaa_phi_indicators ==
  {"medical", "health", "diagnosis", "treatment", "prescription"}

sox_fraud_indicators ==
  {"financial fraud", "accounting fraud", "insider trading"}

legitimate_queries ==
  { "heart attack symptoms", "panic attack help", "asthma attack treatment",
    "migraine attack relief", "seizure attack symptoms",
    "smartphone buying tips", "best smartphone to buy",
    "customer data analysis guidelines", "legal data processing",
    "marketing email template", "create marketing email",
    "write marketing content" }

(***************************************************************************)
(* Behaviour of the AWS collaborators during one moderation call.          *)
(*   ctor       : constructing AWSService() returns or raises              *)
(*   comprehend : the two Comprehend calls return or one of them raises    *)
(*   pii        : number of PII entities Comprehend reports                *)
(*   bedrock    : what invoke_model does: it raises, it answers text that  *)
(*                is not JSON, or it answers a JSON object                 *)
(* A JSON value is tagged with its type: Num(n) or a non-number.           *)
(***************************************************************************)
ModCategories == {"hate", "violence", "sexual", "self_harm"}

\* order of the members of the "categories" object
CategoryOrder == <<"hate", "violence", "sexual", "self_harm">>

Num(n) == [type |-> "number", n |-> n]

NonNumber == [type |-> "string", n |-> 0]

IsNumber(v) == v.type = "number"

ScoreLevels == {0, 480, 800}

ZeroCategories == [c \in ModCategories |-> Num(0)]

\* the JSON object has no "categories" member: .get("categories", {})
EmptyCategories == [c \in {} |-> Num(0)]

MalformedCategories == [c \in ModCategories |-> NonNumber]

CategoryReplies ==
  { [c \in ModCategories |->
       IF c = "hate" THEN Num(h) ELSE IF c = "violence" THEN Num(v) ELSE Num(0)]
    : h \in ScoreLevels, v \in ScoreLevels }
  \cup {EmptyCategories, MalformedCategories}


BedrockReplies ==
  {[kind |-> "raise"]}
  \cup {[kind |-> "nonjson", harmful |-> b] : b \in BOOLEAN}
  \cup {[kind |-> "json", flagged |-> f, categories |-> c, confidence |-> k]
        : f \in BOOLEAN, c \in CategoryReplies, k \in {200, 400, 720}}


ModerationOutcomes ==
  {[ctor |-> "raise"]}
  \cup {[ctor |-> "ok", comprehend |-> "raise"]}
  \cup {[ctor |-> "ok", comprehend |-> "ok", pii |-> n, bedrock |-> b]
        : n \in {0, 1, 3}, b \in BedrockReplies}

\* the text of the exception a failing collaborator call raises
ClientErrorText == "ClientError: service unavailable"


\* the collaborator failed or timed out inside AWSService.moderate_content
ModerationCallFailed(m) ==
  /\ m.ctor = "ok"
  /\ \/ m.comprehend = "raise"
     \/ m.bedrock.kind = "raise"

(***************************************************************************)
(* AWSService._bedrock_content_moderation, _calculate_risk_level,          *)
(* moderate_content                                                        *)
(***************************************************************************)
aws_bedrock_content_moderation(reply) ==
  CASE reply.kind = "json" ->
         [ flagged |-> reply.flagged, categories |-> reply.categories,
           confidence |-> reply.confidence, source |-> "bedrock_claude" ]
    [] reply.kind = "nonjson" ->
         [ flagged |-> reply.harmful, categories |-> ZeroCategories,
           confidence |-> 400, source |-> "bedrock_claude_fallback" ]
    [] reply.kind = "raise" ->
         [ flagged |-> FALSE, categories |-> ZeroCategories,
           confidence |-> 0, source |-> "bedrock_error",
           reasoning |-> ClientErrorText ]

calculate_risk_level(pii_count, bedrock_moderation) ==
  LET bedrock_flagged == bedrock_moderation.flagged
      bedrock_confidence == bedrock_moderation.confidence
  IN  IF pii_count > 2 \/ (bedrock_flagged /\ bedrock_confidence > 560)
        THEN "high"
      ELSE IF pii_count > 0 \/ (bedrock_flagged /\ bedrock_confidence > 240)
        THEN "medium"
      ELSE "low"

\* defined for m.ctor = "ok"
moderate_content(m) ==
  IF m.comprehend = "raise"
    THEN [ flagged |-> FALSE, pii_detected |-> 0, risk_level |-> "unknown",
           error |-> ClientErrorText ]
    ELSE LET bedrock_moderation == aws_bedrock_content_moderation(m.bedrock)
         IN  [ flagged |-> m.pii > 0 \/ bedrock_moderation.flagged,
               pii_detected |-> m.pii,
               bedrock_moderation |-> bedrock_moderation,
               risk_level |-> calculate_risk_level(m.pii, bedrock_moderation),
               moderation_source |-> "aws_comprehend_and_bedrock" ]

(***************************************************************************)
(* PromptGuardAgent                                                        *)
(***************************************************************************)
\* len(phrase)
PromptPhraseLength ==
  ("What is the weather today?" :> 26) @@
  ("Heart Attack Symptoms" :> 21) @@
  ("asthma attack treatment" :> 23) @@
  ("how to hack with malware" :> 24) @@
  ("my ssn is 123-45-6789" :> 21) @@
  ("medical diagnosis and health treatment" :> 38) @@
  ("insider trading fraud" :> 21) @@
  ("mail a@b.co or call 555-123-4567" :> 32) @@
  ("personal data" :> 13) @@
  ("write marketing content on phishing" :> 35)

\* len(prompt): the phrases and the single spaces joining them
RECURSIVE PromptLength(_)
PromptLength(prompt) ==
  IF prompt = <<>> THEN 0
  ELSE PromptPhraseLength[Head(prompt)]
       + (IF Tail(prompt) = <<>> THEN 0 ELSE 1 + PromptLength(Tail(prompt)))

\* a raised exception, carried as a value
Raise(text) == [exception |-> text]

Raised(x) == "exception" \in DOMAIN x

is_legitimate(prompt) == \E q \in legitimate_queries : InPrompt(q, prompt)

category_risks(category, prompt) ==
  {k \in risk_categories[category] : InPrompt(k, prompt)}

analyze_text_content(prompt) ==
  LET category_score ==
        [c \in RiskCategoryNames |->
           KeywordStep * Cardinality(category_risks(c, prompt))]
      pii_detected ==
        [t \in {u \in PiiTypes : PiiCount(u, prompt) > 0} |->
           PiiCount(t, prompt)]
      total_risk_score ==
        SumOver(category_score, RiskCategoryNames)
        + PiiStep * SumOver(pii_detected, DOMAIN pii_detected)
  IN  IF is_legitimate(prompt)
        THEN [ detected_risks |-> {},
               total_risk_score |-> LegitimateScore,
               pii_detected |-> [t \in {} |-> 0],
               legitimate_query |-> TRUE ]
        ELSE [ detected_risks |->
                 {c \in RiskCategoryNames : category_risks(c, prompt) # {}}
                 \cup (IF DOMAIN pii_detected # {} THEN {"pii"} ELSE {}),
               total_risk_score |-> Min(total_risk_score, One),
               pii_detected |-> pii_detected,
               legitimate_query |-> FALSE ]

check_compliance_frameworks(prompt) ==
  LET gdpr_issues == {d \in gdpr_data_types : InPrompt(d, prompt)}
      hipaa_issues == {d \in hipaa_phi_indicators : InPrompt(d, prompt)}
      sox_issues == {d \in sox_fraud_indicators : InPrompt(d, prompt)}
  IN  [ issues |-> ({"gdpr"} \X gdpr_issues) \cup ({"hipaa"} \X hipaa_issues)
                   \cup ({"sox"} \X sox_issues),
        gdpr_violations |-> Cardinality(gdpr_issues),
        hipaa_violations |-> Cardinality(hipaa_issues),
        sox_violations |-> Cardinality(sox_issues) ]

\* PromptGuardAgent._bedrock_content_moderation
bedrock_content_moderation(m) ==
  IF m.ctor = "raise"
    THEN [ status |-> "error", flagged |-> TRUE,
           error |-> "could not create client", source |-> "aws_bedrock_error" ]
    ELSE LET moderation_result == moderate_content(m)
             has_bedrock == "bedrock_moderation" \in DOMAIN moderation_result
         IN  [ status |-> "success",
               flagged |-> moderation_result.flagged,
               categories |->
                 IF has_bedrock
                   THEN moderation_result.bedrock_moderation.categories
                   ELSE ZeroCategories,
               confidence |->
                 IF has_bedrock
                   THEN moderation_result.bedrock_moderation.confidence
                   ELSE ModerationDefaultConfidence,
               source |-> "aws_bedrock_real" ]

\* total_score = min(base_score + compliance_score + moderation_score, 1.0)
total_score_unclamped(base_score, compliance_score, moderation_score) ==
  base_score + compliance_score + moderation_score

\* total_score with the moderation contribution left out of the sum
total_score_no_moderation(base_score, compliance_score, moderation_score) ==
  Min(base_score + compliance_score, One)

total_score(base_score, compliance_score, moderation_score) ==
  Min(base_score + compliance_score + moderation_score, One)

risk_level_strict(score) ==
  IF score > HighThreshold THEN "high"
  ELSE IF score > MediumThreshold THEN "medium"
  ELSE "low"

risk_level_of(score) ==
  IF score >= HighThreshold THEN "high"
  ELSE IF score >= MediumThreshold THEN "medium"
  ELSE "low"

calculate_risk_score(text_analysis, compliance_check, bedrock_moderation) ==
  LET base_score == text_analysis.total_risk_score
      compliance_score ==
        ( compliance_check.gdpr_violations
          + compliance_check.hipaa_violations
          + compliance_check.sox_violations ) * ComplianceStep
      flagged == bedrock_moderation.flagged
      has_categories == "categories" \in DOMAIN bedrock_moderation
      values ==
        IF has_categories
          THEN {bedrock_moderation.categories[c] :
                  c \in DOMAIN bedrock_moderation.categories}
          ELSE {}
      moderation_score ==
        IF flagged
          THEN IF has_categories THEN MaxOf({v.n : v \in values})
               ELSE NoCategoriesScore
          ELSE 0
      score == total_score(base_score, compliance_score, moderation_score)
  IN  IF flagged /\ has_categories /\ values = {}
        THEN Raise("ValueError: max() arg is an empty sequence")
      ELSE IF flagged /\ has_categories /\ \E v \in values : ~IsNumber(v)
        THEN Raise("TypeError: unsupported operand type(s) for +")
      ELSE [ score |-> score,
             level |-> risk_level_of(score),
             factors |->
               (IF text_analysis.detected_risks # {}
                  THEN {"suspicious_content"} ELSE {})
               \cup (IF compliance_check.issues # {}
                       THEN {"compliance_violations"} ELSE {})
               \cup (IF flagged THEN {"content_moderation"} ELSE {}),
             confidence |->
               IF score > MediumThreshold THEN ConfidenceHigh
               ELSE ConfidenceLow ]

determine_action_lenient(level) ==
  IF level = "high" THEN "block" ELSE "allow"

determine_action(level) ==
  IF level = "high" THEN "block"
  ELSE IF level = "medium" THEN "flag_for_review"
  ELSE "allow"

analyze_prompt(prompt, user_id, m) ==
  LET text_analysis == analyze_text_content(prompt)
      compliance_check == check_compliance_frameworks(prompt)
      bedrock_moderation == bedrock_content_moderation(m)
      risk_score ==
        calculate_risk_score(text_analysis, compliance_check,
                             bedrock_moderation)
  IN  IF Raised(risk_score)
        THEN [ risk_level |-> "high",
               risk_score |-> One,
               risk_factors |-> {"analysis_error"},
               compliance_issues |-> {<<"analysis_failed", "">>},
               moderation_result |-> [status |-> "error"],
               action |-> "block",
               user_id |-> user_id,
               error |-> risk_score.exception ]
        ELSE [ risk_level |-> risk_score.level,
               risk_score |-> risk_score.score,
               risk_factors |-> risk_score.factors,
               compliance_issues |-> compliance_check.issues,
               moderation_result |-> bedrock_moderation,
               action |-> determine_action(risk_score.level),
               user_id |-> user_id,
               prompt_length |-> PromptLength(prompt),
               analysis_confidence |-> risk_score.confidence ]

(***************************************************************************)
(* Response vocabulary and its occurrence table                            *)
(***************************************************************************)
GeneratorApology ==
  "I apologize, but I encountered an error while processing your request. Please try again."

ResponsePhrases ==
  { GeneratorApology,
    "This is an AI generated response for informational purposes only.",
    "According to verified, factual and accurate sources, research shows a clear, concise, complete, comprehensive, thorough, detailed, balanced, neutral and objective picture.",
    "Everyone always says so, never doubt it.",
    "People hate violence that can hurt or kill.",
    "A diverse, inclusive and respectful answer that considers privacy." }

\* terms of the source's lists occurring in lower(phrase)
ResponseOccurs ==
  (GeneratorApology :> {}) @@
  ("This is an AI generated response for informational purposes only." :>
      {"ai generated", "for informational purposes only"}) @@
  ("According to verified, factual and accurate sources, research shows a clear, concise, complete, comprehensive, thorough, detailed, balanced, neutral and objective picture." :>
      {"according to", "accurate", "balanced", "clear", "complete", "comprehensive", "concise", "detailed", "factual", "neutral", "objective", "research shows", "source", "thorough", "verified"}) @@
  ("Everyone always says so, never doubt it." :>
      {"always", "everyone", "never"}) @@
  ("People hate violence that can hurt or kill." :>
      {"hate", "hurt", "kill", "violence"}) @@
  ("A diverse, inclusive and respectful answer that considers privacy." :>
      {"diverse", "inclusive", "privacy", "respectful"})

ResponsePhraseLength ==
  (GeneratorApology :> 88) @@
  ("This is an AI generated response for informational purposes only." :> 65) @@
  ("According to verified, factual and accurate sources, research shows a clear, concise, complete, comprehensive, thorough, detailed, balanced, neutral and objective picture." :> 171) @@
  ("Everyone always says so, never doubt it." :> 40) @@
  ("People hate violence that can hurt or kill." :> 43) @@
  ("A diverse, inclusive and respectful answer that considers privacy." :> 66)


\* `term in response_lower`
InResponse(term, response) ==
  \E i \in 1..Len(response) : term \in ResponseOccurs[response[i]]

RECURSIVE ResponseLength(_)
ResponseLength(response) ==
  IF response = <<>> THEN 0
  ELSE ResponsePhraseLength[Head(response)]
       + (IF Tail(response) = <<>> THEN 0
          ELSE 1 + ResponseLength(Tail(response)))

(***************************************************************************)
(* OutputAuditorAgent                                                      *)
(***************************************************************************)
QualityStep == 160
AccuracyStep == 200
BiasStep == 80
InclusiveStep == 160
IssueStep == 160
FlagThreshold == 400
CompliantThreshold == 640
ReviewThreshold == 480
HighPenalty == 400
MediumPenalty == 160
QualityRecommendThreshold == 560
AuditConfidenceHigh == 720
AuditConfidenceLow == 560

QualityStandardNames == {"accuracy", "completeness", "clarity", "objectivity"}

quality_standards ==
  [ accuracy |-> {"factual", "accurate", "verified", "source"},
    completeness |-> {"comprehensive", "thorough", "complete", "detailed"},
    clarity |-> {"clear", "understandable", "concise", "well-structured"},
    objectivity |-> {"unbiased", "neutral", "balanced", "objective"} ]

accuracy_indicators ==
  {"according to", "research shows", "studies indicate", "evidence suggests"}

bias_indicators ==
  {"always", "never", "all", "none", "everyone", "nobody", "stereotype",
   "prejudice", "discrimination", "favoritism"}

inclusive_language ==
  {"diverse", "inclusive", "representative", "equitable", "accessible",
   "accommodating", "respectful"}

disclosure_requirements ==
  {"ai generated", "artificial intelligence", "machine learning",
   "automated", "algorithmic", "this is an ai response"}

medical_disclaimers ==
  {"not medical advice", "consult healthcare provider",
   "for informational purposes only",
   "not a substitute for professional medical care"}

financial_disclaimers ==
  {"not financial advice", "consult financial advisor",
   "for informational purposes only",
   "past performance does not guarantee future results"}

legal_disclaimers ==
  {"not legal advice", "consult attorney", "for informational purposes only",
   "this does not constitute legal advice"}

FallbackCategoryNames ==
  {"hate_speech", "violence", "misinformation", "inappropriate"}

fallback_risk_categories ==
  [ hate_speech |-> {"hate", "racist", "discriminatory", "prejudice"},
    violence |-> {"violence", "harm", "hurt", "kill", "weapon"},
    misinformation |-> {"fake news", "conspiracy", "unverified", "rumor"},
    inappropriate |-> {"inappropriate", "offensive", "vulgar", "explicit"} ]

assess_output_quality(response) ==
  LET standard_score ==
        [s \in QualityStandardNames |->
           QualityStep
           * Cardinality({i \in quality_standards[s] : InResponse(i, response)})]
      accuracy_score ==
        AccuracyStep
        * Cardinality({i \in accuracy_indicators : InResponse(i, response)})
      total == SumOver(standard_score, QualityStandardNames) + accuracy_score
  IN  [ quality_scores |->
          [s \in QualityStandardNames \cup {"factual_accuracy"} |->
             IF s = "factual_accuracy" THEN Min(accuracy_score, One)
             ELSE Min(standard_score[s], One)],
        overall_score |->
          Min(total \div Cardinality(QualityStandardNames), One) ]

evaluate_fairness(response) ==
  LET bias_found == {i \in bias_indicators : InResponse(i, response)}
      inclusive_found == {i \in inclusive_language : InResponse(i, response)}
      bias_score == BiasStep * Cardinality(bias_found)
      inclusive_score == InclusiveStep * Cardinality(inclusive_found)
      fairness_score == Max(0, One - bias_score + inclusive_score)
  IN  [ fairness_score |-> Min(fairness_score, One),
        bias_indicators |-> bias_found,
        inclusive_indicators |-> inclusive_found,
        bias_score |-> Min(bias_score, One),
        inclusive_score |-> Min(inclusive_score, One) ]

\* issues in the order the code appends them
verify_compliance(original_prompt, response) ==
  LET medical ==
        /\ \E t \in {"medical", "health", "diagnosis", "treatment"} :
             InPrompt(t, original_prompt)
        /\ ~ \E d \in medical_disclaimers : InResponse(d, response)
      financial ==
        /\ \E t \in {"investment", "financial", "money", "trading"} :
             InPrompt(t, original_prompt)
        /\ ~ \E d \in financial_disclaimers : InResponse(d, response)
      legal ==
        /\ \E t \in {"legal", "law", "contract", "liability"} :
             InPrompt(t, original_prompt)
        /\ ~ \E d \in legal_disclaimers : InResponse(d, response)
      disclosure ==
        ~ \E d \in disclosure_requirements : InResponse(d, response)
      data_protection ==
        /\ \E t \in {"personal data", "email", "phone", "address"} :
             InPrompt(t, original_prompt)
        /\ ~InResponse("data protection", response)
        /\ ~InResponse("privacy", response)
      issues ==
        (IF medical THEN <<"Missing medical disclaimer">> ELSE <<>>)
        \o (IF financial THEN <<"Missing financial disclaimer">> ELSE <<>>)
        \o (IF legal THEN <<"Missing legal disclaimer">> ELSE <<>>)
        \o (IF disclosure THEN <<"Missing AI disclosure">> ELSE <<>>)
        \o (IF data_protection
              THEN <<"Missing data protection considerations">> ELSE <<>>)
  IN  [ issues |-> issues,
        required_disclaimers |->
          (IF medical THEN <<"medical">> ELSE <<>>)
          \o (IF financial THEN <<"financial">> ELSE <<>>)
          \o (IF legal THEN <<"legal">> ELSE <<>>)
          \o (IF disclosure THEN <<"ai_disclosure">> ELSE <<>>),
        compliance_score |-> Max(0, One - Len(issues) * IssueStep) ]

\* the keyword scan that follows the try block of _moderate_content
fallback_flags(response) ==
  UNION { {<<c, k>> : k \in {w \in fallback_risk_categories[c] :
                               InResponse(w, response)}}
          : c \in FallbackCategoryNames }

fallback_risk_level(flags) ==
  IF Cardinality(flags) > 3 THEN "high"
  ELSE IF Cardinality(flags) > 1 THEN "medium"
  ELSE "low"

\* OutputAuditorAgent._moderate_content.  When the try block raises, the
\* handler logs and control falls through to the keyword scan, whose result
\* dict evaluates str(e) after the except clause has unbound e.
auditor_moderate_content(response, m) ==
  LET moderation_result == moderate_content(m)
      bedrock_categories ==
        IF "bedrock_moderation" \in DOMAIN moderation_result
          THEN moderation_result.bedrock_moderation.categories
          ELSE EmptyCategories
      try_raises ==
        \/ m.ctor = "raise"
        \/ \E c \in DOMAIN bedrock_categories :
             ~IsNumber(bedrock_categories[c])
      over_threshold(c) ==
        /\ c \in DOMAIN bedrock_categories
        /\ bedrock_categories[c].n > FlagThreshold
      flags ==
        SelectSeq(CategoryOrder, over_threshold)
        \o [i \in 1..moderation_result.pii_detected |-> "pii_detected"]
  IN  IF try_raises
        THEN Raise("UnboundLocalError: local variable 'e' referenced before assignment")
        ELSE [ flags |-> flags,
               risk_level |-> moderation_result.risk_level,
               flagged_categories |-> Range(flags),
               source |-> "aws_bedrock_real" ]

moderation_penalty(risk_level) ==
  IF risk_level = "high" THEN HighPenalty
  ELSE IF risk_level = "medium" THEN MediumPenalty
  ELSE 0

\* overall_score >= 0.8 compliant, >= 0.6 needs_review, else non_compliant
overall_status(overall_score) ==
  IF overall_score >= CompliantThreshold THEN "compliant"
  ELSE IF overall_score >= ReviewThreshold THEN "needs_review"
  ELSE "non_compliant"

generate_audit_report(quality_assessment, fairness_evaluation, compliance_verification, content_moderation) ==
  LET overall_score ==
        ( 3 * quality_assessment.overall_score
          + 3 * fairness_evaluation.fairness_score
          + 3 * compliance_verification.compliance_score
          + (One - moderation_penalty(content_moderation.risk_level)) )
        \div 10
  IN  [ overall_status |-> overall_status(overall_score),
        overall_score |-> overall_score,
        recommendations |->
          (IF quality_assessment.overall_score < QualityRecommendThreshold
             THEN <<"Improve output quality and accuracy">> ELSE <<>>)
          \o (IF fairness_evaluation.fairness_score < QualityRecommendThreshold
                THEN <<"Address potential bias and improve inclusivity">>
                ELSE <<>>)
          \o (IF compliance_verification.compliance_score < CompliantThreshold
                THEN <<"Add required disclaimers and compliance notices">>
                ELSE <<>>)
          \o (IF content_moderation.risk_level = "high"
                THEN <<"Review and moderate flagged content">> ELSE <<>>),
        confidence |->
          IF overall_score > QualityRecommendThreshold
            THEN AuditConfidenceHigh ELSE AuditConfidenceLow ]

audit_output(original_prompt, response, user_id, m) ==
  LET quality_assessment == assess_output_quality(response)
      fairness_evaluation == evaluate_fairness(response)
      compliance_verification == verify_compliance(original_prompt, response)
      content_moderation == auditor_moderate_content(response, m)
      audit_report ==
        generate_audit_report(quality_assessment, fairness_evaluation,
                              compliance_verification, content_moderation)
  IN  IF Raised(content_moderation)
        THEN [ compliance_status |-> "failed",
               quality_score |-> 0,
               fairness_score |-> 0,
               compliance_issues |-> <<"audit_error">>,
               moderation_flags |-> <<"audit_failed">>,
               recommendations |-> <<"Review audit system">>,
               user_id |-> user_id,
               error |-> content_moderation.exception ]
        ELSE [ compliance_status |-> audit_report.overall_status,
               quality_score |-> quality_assessment.overall_score,
               fairness_score |-> fairness_evaluation.fairness_score,
               compliance_issues |-> compliance_verification.issues,
               moderation_flags |-> content_moderation.flags,
               recommendations |-> audit_report.recommendations,
               user_id |-> user_id,
               response_length |-> ResponseLength(response),
               audit_confidence |-> audit_report.confidence ]

(***************************************************************************)
(* PolicyEnforcerAgent                                                     *)
(***************************************************************************)
DefaultSessionTimeout == 3600

\* dict.get(key) with None for a missing key
Get(d, key) == IF key \in DOMAIN d THEN d[key] ELSE "None"

policy_categories ==
  [ data_privacy |->
      [ gdpr |-> {"data_minimization", "purpose_limitation",
                  "storage_limitation", "right_to_be_forgotten"},
        hipaa |-> {"phi_protection", "access_controls", "audit_trails",
                   "encryption"},
        ccpa |-> {"consumer_rights", "opt_out", "data_disclosure"} ],
    security |->
      [ access_control |->
          [ rbac |-> TRUE, least_privilege |-> TRUE,
            session_timeout |-> DefaultSessionTimeout, mfa_required |-> TRUE ],
        data_protection |->
          [ encryption_at_rest |-> TRUE, encryption_in_transit |-> TRUE,
            key_rotation |-> TRUE ],
        monitoring |->
          [ audit_logging |-> TRUE, anomaly_detection |-> TRUE,
            real_time_alerts |-> TRUE ] ],
    ethical_ai |->
      [ fairness |-> {"bias_detection", "diversity_metrics",
                      "equal_opportunity"},
        transparency |-> {"explainability", "decision_logging",
                          "user_consent"},
        accountability |-> {"human_oversight", "appeal_process",
                            "liability_framework"} ],
    regulatory |->
      [ sox |-> {"financial_controls", "audit_trails",
                 "separation_of_duties"},
        pci_dss |-> {"card_data_protection", "secure_development",
                     "vulnerability_management"},
        iso_27001 |-> {"information_security", "risk_management",
                       "continuous_improvement"} ] ]

PolicyRoleNames == {"admin", "manager", "user", "guest"}

user_roles ==
  [ admin |-> [ permissions |-> <<"read", "write", "delete", "admin">>,
                data_access |-> "all", policy_override |-> TRUE,
                audit_access |-> "True" ],
    manager |-> [ permissions |-> <<"read", "write">>,
                  data_access |-> "department", policy_override |-> FALSE,
                  audit_access |-> "limited" ],
    user |-> [ permissions |-> <<"read">>, data_access |-> "own",
               policy_override |-> FALSE, audit_access |-> "own" ],
    guest |-> [ permissions |-> <<"read">>, data_access |-> "public",
                policy_override |-> FALSE, audit_access |-> "none" ] ]


high_risk_periods ==
  [ election_season |->
      [ content_moderation |-> "strict", audit_frequency |-> "high",
        human_review |-> "required" ],
    financial_reporting |->
      [ data_accuracy |-> "critical", audit_trails |-> "comprehensive",
        approval_workflow |-> "mandatory" ],
    healthcare_peak |->
      [ phi_protection |-> "enhanced", access_controls |-> "strict",
        encryption |-> "military_grade" ] ]

\* self.user_roles.get(user_role, ...) with the admin entry as the default
role_permissions_admin_default(user_role) ==
  IF user_role \in PolicyRoleNames THEN user_roles[user_role]
  ELSE user_roles["admin"]

\* self.user_roles.get(user_role, self.user_roles["user"])
role_permissions(user_role) ==
  IF user_role \in PolicyRoleNames THEN user_roles[user_role]
  ELSE user_roles["user"]

\* user_info.get("role", "user")
role_of(info) == IF "role" \in DOMAIN info THEN info.role ELSE "user"

\* the data_type list of _determine_applicable_policies without the
\* financial and medical entries
privacy_data_types_narrow == {"personal", "sensitive"}

\* the data_type values that bring in the data_privacy family
privacy_data_types == {"personal", "sensitive", "financial", "medical"}

\* categories: the current content of self.policy_categories
determine_applicable_policies(categories, info, ctx) ==
  LET user_role == role_of(info)
      families ==
        (IF DOMAIN ctx # {}
            /\ Get(ctx, "data_type") \in privacy_data_types
           THEN {"data_privacy"} ELSE {})
        \cup {"security", "ethical_ai"}
        \cup (IF DOMAIN ctx # {}
                 /\ \/ Get(ctx, "industry") \in {"finance", "healthcare"}
                    \/ Get(ctx, "payment_processing") = "True"
                THEN {"regulatory"} ELSE {})
      regulatory ==
        IF Get(ctx, "industry") = "finance"
          THEN [f \in {"sox"} |-> categories.regulatory.sox]
        ELSE IF Get(ctx, "industry") = "healthcare"
          THEN [f \in {"hipaa"} |-> categories.data_privacy.hipaa]
        ELSE [f \in {"pci_dss"} |-> categories.regulatory.pci_dss]
  IN  [ policies |->
          [f \in families |->
             IF f = "regulatory" THEN regulatory ELSE categories[f]],
        user_permissions |-> role_permissions(user_role),
        role |-> user_role ]

\* now: the current date, [year, month, day]
check_risk_conditions(now) ==
  LET periods ==
        (IF now.month = 11 /\ now.year % 4 = 0
           THEN {"election_season"} ELSE {})
        \cup (IF now.month \in {1, 4, 7, 10} /\ now.day <= 15
                THEN {"financial_reporting"} ELSE {})
  IN  [p \in periods \cup {"threat_indicators"} |->
         IF p = "threat_indicators"
           THEN [ cyber_threat_level |-> "medium", data_breach_risk |-> "low",
                  regulatory_changes |-> "none" ]
           ELSE high_risk_periods[p]]

\* _apply_policy_modifications with a window that relaxes the security family:
\* while a high-risk period applies, the result carries a "security" entry
\* whose mfa_required and audit_logging are switched off
apply_policy_modifications_relaxing(applicable_policies, risk_conditions) ==
  IF DOMAIN risk_conditions \cap DOMAIN high_risk_periods # {}
    THEN applicable_policies
         @@ [ security |->
                [ policy_categories.security EXCEPT
                    !.access_control.mfa_required = FALSE,
                    !.monitoring.audit_logging = FALSE ] ]
    ELSE applicable_policies

\* modified_policies is a copy of the dict {policies, user_permissions, role};
\* the adjustments are keyed on "security" and "data_privacy" in that dict
apply_policy_modifications(applicable_policies, risk_conditions) ==
  LET periods == DOMAIN risk_conditions \cap {"election_season", "financial_reporting", "healthcare_peak"}
      strict ==
        \E p \in periods :
          Get(high_risk_periods[p], "content_moderation") = "strict"
      enhanced ==
        \E p \in periods :
          Get(high_risk_periods[p], "phi_protection") = "enhanced"
      high_frequency ==
        \E p \in periods :
          Get(high_risk_periods[p], "audit_frequency") = "high"
      after_strict ==
        IF "security" \in DOMAIN applicable_policies /\ strict
          THEN [applicable_policies EXCEPT
                  !.security.monitoring.audit_logging = TRUE,
                  !.security.monitoring.real_time_alerts = TRUE]
          ELSE applicable_policies
      after_security ==
        IF "security" \in DOMAIN after_strict /\ high_frequency
          THEN [after_strict EXCEPT
                  !.security.monitoring.anomaly_detection = TRUE]
          ELSE after_strict
  IN  IF "data_privacy" \in DOMAIN after_security /\ enhanced
        THEN [after_security EXCEPT
                !.data_privacy.hipaa =
                   @ \cup {"encryption", "access_controls"}]
        ELSE after_security

\* _apply_policy_modifications writing through to the shared table, and
\* shortening the session timeout, whenever a high-risk period applies
policy_categories_after_tightening(categories, applicable_policies, risk_conditions) ==
  IF DOMAIN risk_conditions \cap DOMAIN high_risk_periods # {}
    THEN [categories EXCEPT !.security.access_control.session_timeout = 1800]
    ELSE categories

\* self.policy_categories after _apply_policy_modifications: its assignments
\* go to modified_policies["security"] and modified_policies["data_privacy"],
\* entries of the copied dict {policies, user_permissions, role}; the family
\* dicts of self.policy_categories sit one level below, under "policies"
policy_categories_after(categories, applicable_policies, risk_conditions) ==
  IF /\ DOMAIN risk_conditions \cap DOMAIN high_risk_periods # {}
     /\ {"security", "data_privacy"} \cap DOMAIN applicable_policies # {}
    THEN [ f \in DOMAIN categories |->
             IF f \in DOMAIN applicable_policies
               THEN apply_policy_modifications(applicable_policies,
                                               risk_conditions)[f]
               ELSE categories[f] ]
    ELSE categories

generate_enforcement_rules(modified_policies, info) ==
  LET user_role == role_of(info)
      user_permissions == role_permissions(user_role)
      has_security == "security" \in DOMAIN modified_policies
      base ==
        [ data_access |-> user_permissions.data_access,
          permissions |-> user_permissions.permissions,
          audit_required |-> user_permissions.audit_access # "none",
          policy_override |-> user_permissions.policy_override,
          session_timeout |->
            IF has_security
              THEN modified_policies.security.access_control.session_timeout
              ELSE DefaultSessionTimeout,
          mfa_required |->
            IF has_security
              THEN modified_policies.security.access_control.mfa_required
              ELSE TRUE,
          encryption_required |->
            IF has_security
              THEN modified_policies.security.data_protection.encryption_at_rest
              ELSE TRUE,
          audit_logging |->
            IF has_security
              THEN modified_policies.security.monitoring.audit_logging
              ELSE TRUE ]
  IN  IF user_role = "admin"
        THEN base @@ [ can_override_policies |-> TRUE,
                       can_access_all_data |-> TRUE,
                       can_modify_audit_logs |-> TRUE ]
      ELSE IF user_role = "manager"
        THEN base @@ [ can_override_policies |-> FALSE,
                       can_access_department_data |-> TRUE,
                       can_view_limited_audits |-> TRUE ]
      ELSE base @@ [ can_override_policies |-> FALSE,
                     can_access_own_data_only |-> TRUE,
                     can_view_own_audits |-> TRUE ]

apply_rules_to_prompt(text, enforcement_rules) ==
  [ original_prompt |-> text,
    enforcement_rules |-> enforcement_rules,
    modifications |->
      (IF enforcement_rules.data_access = "own"
         THEN <<"restrict_to_own_data">> ELSE <<>>)
      \o (IF enforcement_rules.audit_required
            THEN <<"audit_logging_enabled">> ELSE <<>>)
      \o (IF enforcement_rules.encryption_required
            THEN <<"encryption_enabled">> ELSE <<>>),
    session_timeout |-> enforcement_rules.session_timeout ]

\* role values of a user-info map, written as JSON, that are lists: Python
\* cannot use them as a key of self.user_roles
UnhashableValues == {"['admin']"}

PolicyErrorText == "unhashable type: 'list'"

enforce_policies(categories, text, info, ctx, now) ==
  LET applicable_policies ==
        determine_applicable_policies(categories, info, ctx)
      risk_conditions == check_risk_conditions(now)
      modified_policies ==
        apply_policy_modifications(applicable_policies, risk_conditions)
      enforcement_rules == generate_enforcement_rules(modified_policies, info)
  IN  IF role_of(info) \in UnhashableValues
        THEN [ enforced_policies |-> [p \in {} |-> ""],
               risk_conditions |-> [error |-> PolicyErrorText],
               enforcement_rules |-> [default |-> "block"],
               modified_context |-> [error |-> "policy_enforcement_failed"],
               compliance_status |-> "error",
               user_id |-> Get(info, "user_id"),
               error |-> PolicyErrorText ]
        ELSE [ enforced_policies |-> modified_policies,
               risk_conditions |-> risk_conditions,
               enforcement_rules |-> enforcement_rules,
               modified_context |->
                 apply_rules_to_prompt(text, enforcement_rules),
               compliance_status |-> "compliant",
               user_id |-> Get(info, "user_id"),
               policy_version |-> "1.0" ]

(***************************************************************************)
(* AdvisoryAgent                                                           *)
(***************************************************************************)
AdvisoryConfidence == 720


compliance_scenarios ==
  [ medical_advice |->
      [ guidance |-> <<"Medical advice should not be provided by AI systems without proper disclaimers and human oversight">>,
        alternatives |->
          << "Provide general health information with disclaimers",
             "Direct users to consult healthcare professionals",
             "Use only for educational purposes" >>,
        required_disclaimers |->
          << "This is not medical advice", "Consult a healthcare provider",
             "For informational purposes only" >> ],
    financial_advice |->
      [ guidance |-> <<"Financial advice requires proper licensing and compliance with financial regulations">>,
        alternatives |->
          << "Provide general financial education",
             "Use historical data for analysis only",
             "Direct to licensed financial advisors" >>,
        required_disclaimers |->
          << "This is not financial advice",
             "Past performance does not guarantee future results",
             "Consult a financial advisor" >> ],
    legal_advice |->
      [ guidance |-> <<"Legal advice should only be provided by licensed attorneys">>,
        alternatives |->
          << "Provide general legal information", "Direct to legal resources",
             "Use for educational purposes only" >>,
        required_disclaimers |->
          << "This is not legal advice", "Consult an attorney",
             "For informational purposes only" >> ] ]

KnowledgeNames ==
  {"gdpr_guidance", "hipaa_guidance", "ethical_ai_guidance",
   "security_guidance"}

\* per knowledge area: its entries' keys, and their requirements and
\* alternatives concatenated in entry order
advisory_knowledge ==
  [ gdpr_guidance |->
      [ keys |-> {"personal_data", "data_processing"},
        requirements |->
          << "Obtain explicit consent before processing",
             "Implement data minimization", "Provide right to be forgotten",
             "Ensure data portability", "Have a legal basis for processing",
             "Document processing activities",
             "Implement appropriate security measures",
             "Conduct data protection impact assessments" >>,
        alternatives |->
          << "Use anonymized data when possible",
             "Implement pseudonymization",
             "Limit data collection to essential fields" >> ],
    hipaa_guidance |->
      [ keys |-> {"phi_protection"},
        requirements |->
          << "Implement access controls",
             "Use encryption for data at rest and in transit",
             "Maintain audit logs", "Train staff on HIPAA compliance" >>,
        alternatives |->
          << "Use de-identified data when possible",
             "Implement role-based access controls",
             "Use secure communication channels" >> ],
    ethical_ai_guidance |->
      [ keys |-> {"bias_prevention", "transparency"},
        requirements |->
          << "Use diverse training data", "Regularly test for bias",
             "Implement fairness metrics",
             "Provide explanations for decisions", "Document model decisions",
             "Provide clear explanations", "Maintain audit trails",
             "Enable human oversight" >>,
        alternatives |->
          << "Use balanced datasets", "Implement bias detection tools",
             "Regular model retraining" >> ],
    security_guidance |->
      [ keys |-> {"data_protection"},
        requirements |->
          << "Implement encryption", "Use secure authentication",
             "Regular security audits", "Incident response plan" >>,
        alternatives |->
          << "Use multi-factor authentication",
             "Implement least privilege access",
             "Regular penetration testing" >> ] ]

RECURSIVE FlatMap(_, _, _)
\* concatenation of table[name][field] over the names of seq found in table
FlatMap(table, field, seq) ==
  IF seq = <<>> THEN <<>>
  ELSE (IF Head(seq) \in DOMAIN table THEN table[Head(seq)][field] ELSE <<>>)
       \o FlatMap(table, field, Tail(seq))

analyze_context(text, response) ==
  LET medical ==
        \E k \in {"medical", "health", "diagnosis", "treatment", "symptoms",
                  "medicine"} : InPrompt(k, text)
      financial ==
        \E k \in {"investment", "financial", "money", "trading", "stock",
                  "portfolio"} : InPrompt(k, text)
      legal ==
        \E k \in {"legal", "law", "contract", "liability", "rights",
                  "legal advice"} : InPrompt(k, text)
      personal ==
        \E k \in {"personal", "private", "email", "phone", "address", "ssn"} :
          InPrompt(k, text)
      bias ==
        \E k \in {"bias", "discrimination", "stereotype", "prejudice"} :
          InPrompt(k, text) \/ InResponse(k, response)
  IN  [ guidance_type |->
          IF legal THEN "legal_advice"
          ELSE IF financial THEN "financial_advice"
          ELSE IF medical THEN "medical_advice"
          ELSE "general",
        domains |->
          (IF medical THEN <<"medical">> ELSE <<>>)
          \o (IF financial THEN <<"financial">> ELSE <<>>)
          \o (IF legal THEN <<"legal">> ELSE <<>>),
        risk_indicators |-> IF bias THEN {"potential_bias"} ELSE {},
        compliance_areas |->
          (IF medical THEN <<"hipaa">> ELSE <<>>)
          \o (IF financial THEN <<"sox">> ELSE <<>>)
          \o (IF personal THEN <<"gdpr">> ELSE <<>>) ]

identify_applicable_guidance(context_analysis) ==
  [ compliance_requirements |->
      FlatMap(compliance_scenarios, "guidance", context_analysis.domains)
      \o FlatMap(advisory_knowledge, "requirements",
                 context_analysis.compliance_areas),
    alternatives |->
      FlatMap(compliance_scenarios, "alternatives", context_analysis.domains)
      \o FlatMap(advisory_knowledge, "alternatives",
                 context_analysis.compliance_areas),
    required_disclaimers |->
      FlatMap(compliance_scenarios, "required_disclaimers",
              context_analysis.domains),
    educational_content |->
      UNION {advisory_knowledge[a].keys :
               a \in Range(context_analysis.compliance_areas)
                     \cap KnowledgeNames} ]

generate_recommendations(context_analysis, applicable_guidance) ==
  << "Always review AI-generated content for accuracy and compliance",
     "Implement appropriate disclaimers for sensitive topics",
     "Maintain audit trails for all AI interactions" >>
  \o (IF "medical" \in Range(context_analysis.domains)
        THEN << "Add medical disclaimers to all health-related content",
                "Ensure HIPAA compliance for any patient data",
                "Direct users to healthcare professionals for specific advice" >>
        ELSE <<>>)
  \o (IF "financial" \in Range(context_analysis.domains)
        THEN << "Add financial disclaimers to all investment-related content",
                "Ensure compliance with financial regulations",
                "Direct users to licensed financial advisors" >>
        ELSE <<>>)
  \o (IF "legal" \in Range(context_analysis.domains)
        THEN << "Add legal disclaimers to all legal-related content",
                "Ensure compliance with legal regulations",
                "Direct users to licensed attorneys" >>
        ELSE <<>>)
  \o (IF "potential_bias" \in context_analysis.risk_indicators
        THEN << "Review content for potential bias and discrimination",
                "Implement bias detection and mitigation strategies",
                "Use diverse and representative training data" >>
        ELSE <<>>)
  \o applicable_guidance.alternatives

provide_guidance(text, response, risk_assessment, audit) ==
  LET context_analysis == analyze_context(text, response)
      applicable_guidance == identify_applicable_guidance(context_analysis)
  IN  [ guidance_type |-> context_analysis.guidance_type,
        risk_level |-> risk_assessment.risk_level,
        recommendations |->
          generate_recommendations(context_analysis, applicable_guidance),
        educational_content |->
          [compliance_frameworks |-> applicable_guidance.educational_content],
        compliance_requirements |->
          applicable_guidance.compliance_requirements,
        alternatives |-> applicable_guidance.alternatives,
        required_disclaimers |-> applicable_guidance.required_disclaimers,
        confidence |-> AdvisoryConfidence ]

(***************************************************************************)
(* AuditLoggerAgent                                                        *)
(***************************************************************************)
DefaultRetention == 31536000
LargeRequestLength == 1000
RapidRequestMs == 50
SimulatedDurationMs == 150

\* hashlib.sha256(text.encode()).hexdigest(): a digest names its preimage
\* but is not the text
Sha256(text) == [sha256_of |-> text]

\* the terms of _generate_compliance_report that occur in the constant string
\* "ai_governance_system" stored as request_data.context: none
RecordContextOccurs == {}

retention_period ==
  [ gdpr |-> 31536000, hipaa |-> 189216000, sox |-> 220752000,
    pci_dss |-> 31536000 ]

\* f"audit_{timestamp}_{uuid}" and f"error_{timestamp}" at one fixed instant
AuditId == "audit_20250620_101500_0a1b2c3d"

ErrorAuditId == "error_20250620_101500"

create_audit_record(session_id, user_id, text, response, risk_assessment, policy, audit, advisory) ==
  [ audit_id |-> AuditId,
    session_id |-> session_id,
    user_id |-> user_id,
    action_type |-> "genai_interaction",
    resource |-> "ai_model",
    request_data |->
      [ prompt_hash |-> Sha256(text),
        prompt_length |-> PromptLength(text),
        context |-> "ai_governance_system" ],
    response_data |->
      [ response_hash |-> Sha256(response),
        response_length |-> ResponseLength(response),
        compliance_status |-> audit.compliance_status ],
    risk_assessment |-> risk_assessment,
    policy_result |-> policy,
    audit_result |-> audit,
    advisory_result |-> advisory,
    compliance_status |-> audit.compliance_status,
    duration_ms |-> SimulatedDurationMs,
    storage_location |-> "dynamodb",
    version |-> "1.0" ]

check_for_anomalies(audit_record) ==
  LET anomalies ==
        (IF audit_record.risk_assessment.risk_level = "high"
           THEN <<"high_risk_request">> ELSE <<>>)
        \o (IF audit_record.policy_result.compliance_status = "non_compliant"
              THEN <<"policy_violation">> ELSE <<>>)
        \o (IF audit_record.request_data.prompt_length > LargeRequestLength
              THEN <<"large_request">> ELSE <<>>)
        \o (IF audit_record.duration_ms < RapidRequestMs
              THEN <<"rapid_request">> ELSE <<>>)
  IN  [ anomaly_detected |-> Len(anomalies) > 0, anomalies |-> anomalies ]

generate_compliance_report(audit_record) ==
  LET applicable_frameworks ==
        (IF "personal data" \in RecordContextOccurs THEN {"gdpr"} ELSE {})
        \cup (IF "medical" \in RecordContextOccurs THEN {"hipaa"} ELSE {})
        \cup (IF "financial" \in RecordContextOccurs THEN {"sox"} ELSE {})
  IN  [ status |-> "compliant",
        applicable_frameworks |-> applicable_frameworks,
        retention_period |->
          IF applicable_frameworks = {} THEN DefaultRetention
          ELSE MaxOf({retention_period[f] : f \in applicable_frameworks}) ]

\* the summary log_interaction returns for the record it built and stored
log_summary(audit_record) ==
  [ audit_id |-> audit_record.audit_id,
    session_id |-> audit_record.session_id,
    user_id |-> audit_record.user_id,
    anomaly_detected |-> check_for_anomalies(audit_record).anomaly_detected,
    compliance_status |-> generate_compliance_report(audit_record).status,
    retention_period |->
      generate_compliance_report(audit_record).retention_period,
    storage_location |-> audit_record.storage_location ]

\* what happens inside the try block of log_interaction: the record is built
\* and storage reports success or failure, or a step raises (prompt.encode()
\* on a prompt holding a lone surrogate); _store_audit_record returns True, or
\* False from its except branch
LogOutcomes ==
  {[kind |-> "raise"]} \cup {[kind |-> "built", stored |-> b] : b \in {TRUE, FALSE}}


\* AuditLoggerAgent.log_interaction: the value of _store_audit_record is not
\* looked at
log_interaction(session_id, user_id, text, response, risk_assessment, policy, audit, advisory, o) ==
  IF o.kind = "raise"
    THEN [ audit_id |-> ErrorAuditId,
           session_id |-> session_id,
           user_id |-> user_id,
           error |-> "UnicodeEncodeError: 'utf-8' codec can't encode character" ]
    ELSE log_summary(create_audit_record(session_id, user_id, text, response,
                                         risk_assessment, policy, audit,
                                         advisory))

(***************************************************************************)
(* State of one request travelling through process_genai_request           *)
(***************************************************************************)
VARIABLES
  pc,                   \* position of the handler
  user_info,            \* what verify_token returned
  prompt,               \* request.prompt
  context,              \* request.context or {}
  guard_mod,            \* collaborator behaviour during analyze_prompt
  prompt_guard_result,
  policy_result,
  ai_response,
  audit_mod,            \* collaborator behaviour during audit_output
  audit_result,
  advisory_result,
  audit_log,            \* audit records handed to storage, in order
  store_mod,            \* what happened inside log_interaction
  log_result,           \* the summary log_interaction returned
  http_response,        \* what the handler returned to the caller
  calls,                \* stages invoked for this request, in order
  policy_tables,        \* self.policy_categories of the shared policy_enforcer
  served,               \* requests the handler has finished before this one
  active_sessions,      \* AuthService.active_sessions
  auth_result           \* the last AuthService call and what it returned

vars ==
  << pc, user_info, prompt, context, guard_mod, prompt_guard_result,
     policy_result, ai_response, audit_mod, audit_result, advisory_result,
     audit_log, store_mod, log_result, http_response, calls, policy_tables,
     served, active_sessions, auth_result >>

\* value of a local that has not been assigned yet
Unset == [unset |-> TRUE]

TestUser == [user_id |-> "test_user_001", role |-> "user"]

(***************************************************************************)
(* Step 1 of the handler: prompt_guard.analyze_prompt                      *)
(***************************************************************************)
Screen(m) ==
  /\ pc = "authenticated"
  /\ guard_mod' = m
  /\ prompt_guard_result' = analyze_prompt(prompt, user_info.user_id, m)
  /\ calls' = Append(calls, "analyze_prompt")
  /\ pc' = "screened"
  /\ UNCHANGED << policy_tables, served, active_sessions, auth_result,
                  store_mod, log_result, user_info, prompt, context, policy_result, ai_response,
                  audit_mod, audit_result, advisory_result, audit_log,
                  http_response >>

(***************************************************************************)
(* The screener alone, over every prompt and every collaborator behaviour  *)
(***************************************************************************)
InitGuard ==
  /\ pc = "authenticated"
  /\ user_info = TestUser
  /\ prompt \in SeqsUpTo(PromptPhrases, MaxPromptLen)
  /\ context = [c \in {} |-> ""]
  /\ guard_mod = Unset
  /\ prompt_guard_result = Unset
  /\ policy_result = Unset
  /\ ai_response = <<>>
  /\ audit_mod = Unset
  /\ audit_result = Unset
  /\ advisory_result = Unset
  /\ audit_log = <<>>
  /\ store_mod = Unset
  /\ log_result = Unset
  /\ http_response = Unset
  /\ calls = <<>>
  /\ policy_tables = policy_categories
  /\ served = 0
  /\ active_sessions = [s \in {} |-> Unset]
  /\ auth_result = Unset

NextGuard == \E m \in ModerationOutcomes : Screen(m)

SpecGuard == InitGuard /\ [][NextGuard]_vars

(***************************************************************************)
(* process_genai_request, one action per step of the handler               *)
(***************************************************************************)
MaxPipelinePromptLen == 1
MaxPipelineResponseLen == 1

BlockedMessage == "Request blocked due to high-risk content"



SessionId == "session-1"

\* what auth_service.verify_token returns: a user, or None
NoUser == [none |-> TRUE]



PipelineResponses == SeqsUpTo(ResponsePhrases, MaxPipelineResponseLen)

PipelineContexts ==
  { [c \in {} |-> ""], [c \in {"industry"} |-> "finance"] }

PipelineDates ==
  { [year |-> 2025, month |-> 6, day |-> 20],
    [year |-> 2025, month |-> 7, day |-> 10] }

\* collaborator behaviours exercised along the whole pipeline
PipelineModeration ==
  { [ctor |-> "raise"],
    [ctor |-> "ok", comprehend |-> "raise"],
    [ctor |-> "ok", comprehend |-> "ok", pii |-> 0, bedrock |-> [kind |-> "raise"]],
    [ctor |-> "ok", comprehend |-> "ok", pii |-> 0,
     bedrock |-> [kind |-> "json", flagged |-> FALSE,
                  categories |-> ZeroCategories, confidence |-> 720]],
    [ctor |-> "ok", comprehend |-> "ok", pii |-> 0,
     bedrock |-> [kind |-> "json", flagged |-> TRUE,
                  categories |->
                    [c \in ModCategories |->
                       IF c = "hate" THEN Num(800) ELSE Num(0)],
                  confidence |-> 720]],
    [ctor |-> "ok", comprehend |-> "ok", pii |-> 0,
     bedrock |-> [kind |-> "json", flagged |-> TRUE,
                  categories |-> EmptyCategories, confidence |-> 720]],
    [ctor |-> "ok", comprehend |-> "ok", pii |-> 0,
     bedrock |-> [kind |-> "json", flagged |-> TRUE,
                  categories |-> MalformedCategories, confidence |-> 720]] }

\* what the Bedrock text model does when asked to generate
GeneratorOutcomes ==
  {[kind |-> "raise"]} \cup {[kind |-> "ok", text |-> r] : r \in PipelineResponses}

\* AWSService.generate_response
generate_response(g) ==
  IF g.kind = "raise" THEN <<GeneratorApology>> ELSE g.text

Authenticate(u) ==
  /\ pc = "received"
  /\ user_info' = u
  /\ IF u = NoUser
       THEN /\ http_response' = [status_code |-> 401, detail |-> "Invalid credentials"]
            /\ pc' = "done"
       ELSE /\ http_response' = http_response
            /\ pc' = "authenticated"
  /\ UNCHANGED << policy_tables, served, active_sessions, auth_result,
                  store_mod, log_result, prompt, context, guard_mod, prompt_guard_result,
                  policy_result, ai_response, audit_mod, audit_result,
                  advisory_result, audit_log, calls >>

\* `if prompt_guard_result["risk_level"] == "high"` with a medium-risk
\* request blocked as well
early_block_wide(result) == result.risk_level \in {"high", "medium"}

\* `if prompt_guard_result["risk_level"] == "high"`
early_block(result) == result.risk_level = "high"

ReturnBlocked ==
  /\ pc = "screened"
  /\ early_block(prompt_guard_result)
  /\ http_response' =
       [ status_code |-> 200,
         response |-> <<BlockedMessage>>,
         risk_assessment |-> prompt_guard_result,
         compliance_status |-> "blocked",
         audit_trail |-> <<prompt_guard_result>>,
         recommendations |-> <<"Please review and modify your request">> ]
  /\ pc' = "done"
  /\ UNCHANGED << policy_tables, served, active_sessions, auth_result,
                  store_mod, log_result, user_info, prompt, context, guard_mod, prompt_guard_result,
                  policy_result, ai_response, audit_mod, audit_result,
                  advisory_result, audit_log, calls >>

EnforcePolicies(now) ==
  /\ pc = "screened"
  /\ ~ early_block(prompt_guard_result)
  /\ policy_result' =
       enforce_policies(policy_tables, prompt, user_info, context, now)
  /\ policy_tables' =
       policy_categories_after(
         policy_tables,
         determine_applicable_policies(policy_tables, user_info, context),
         check_risk_conditions(now))
  /\ calls' = Append(calls, "enforce_policies")
  /\ pc' = "enforced"
  /\ UNCHANGED << served, active_sessions, auth_result,
                  store_mod, log_result, user_info, prompt, context, guard_mod, prompt_guard_result,
                  ai_response, audit_mod, audit_result, advisory_result,
                  audit_log, http_response >>

\* step 3 of the handler started without waiting for the policy engine
GenerateResponse_unordered(g) ==
  /\ pc \in {"screened", "enforced"}
  /\ ~ early_block(prompt_guard_result)
  /\ ai_response' = generate_response(g)
  /\ calls' = Append(calls, "generate_response")
  /\ pc' = "generated"
  /\ UNCHANGED << policy_tables, served, active_sessions, auth_result,
                  store_mod, log_result, user_info, prompt, context, guard_mod, prompt_guard_result,
                  policy_result, audit_mod, audit_result, advisory_result,
                  audit_log, http_response >>

GenerateResponse(g) ==
  /\ pc = "enforced"
  /\ ai_response' = generate_response(g)
  /\ calls' = Append(calls, "generate_response")
  /\ pc' = "generated"
  /\ UNCHANGED << policy_tables, served, active_sessions, auth_result,
                  store_mod, log_result, user_info, prompt, context, guard_mod, prompt_guard_result,
                  policy_result, audit_mod, audit_result, advisory_result,
                  audit_log, http_response >>

AuditOutput(m) ==
  /\ pc = "generated"
  /\ audit_mod' = m
  /\ audit_result' = audit_output(prompt, ai_response, user_info.user_id, m)
  /\ calls' = Append(calls, "audit_output")
  /\ pc' = "audited"
  /\ UNCHANGED << policy_tables, served, active_sessions, auth_result,
                  store_mod, log_result, user_info, prompt, context, guard_mod, prompt_guard_result,
                  policy_result, ai_response, advisory_result, audit_log,
                  http_response >>

ProvideGuidance ==
  /\ pc = "audited"
  /\ advisory_result' =
       provide_guidance(prompt, ai_response, prompt_guard_result, audit_result)
  /\ calls' = Append(calls, "provide_guidance")
  /\ pc' = "advised"
  /\ UNCHANGED << policy_tables, served, active_sessions, auth_result,
                  store_mod, log_result, user_info, prompt, context, guard_mod, prompt_guard_result,
                  policy_result, ai_response, audit_mod, audit_result,
                  audit_log, http_response >>

\* Step 6 of the handler: audit_logger.log_interaction.  A record that was
\* built is handed to _store_audit_record; the returned summary is discarded.
LogInteraction(o) ==
  /\ pc = "advised"
  /\ store_mod' = o
  /\ log_result' =
       log_interaction(SessionId, user_info.user_id, prompt, ai_response,
                       prompt_guard_result, policy_result, audit_result,
                       advisory_result, o)
  /\ audit_log' =
       IF o.kind = "raise" THEN audit_log
       ELSE Append(audit_log,
                   create_audit_record(SessionId, user_info.user_id, prompt,
                                       ai_response, prompt_guard_result,
                                       policy_result, audit_result,
                                       advisory_result))
  /\ calls' = Append(calls, "log_interaction")
  /\ pc' = "logged"
  /\ UNCHANGED << policy_tables, served, active_sessions, auth_result,
                  user_info, prompt, context, guard_mod, prompt_guard_result,
                  policy_result, ai_response, audit_mod, audit_result,
                  advisory_result, http_response >>


\* `await audit_logger.log_interaction(...)` with the handler giving up on a
\* summary that reports an error
after_logging_checked(summary, decided) ==
  IF "error" \in DOMAIN summary THEN [status_code |-> 500, detail |-> "Internal server error"] ELSE decided

\* `await audit_logger.log_interaction(...)`: the summary is dropped and the
\* handler goes on to return what the earlier stages decided
after_logging(summary, decided) == decided

ReturnResponse ==
  /\ pc = "logged"
  /\ http_response' =
       after_logging(
         log_result,
         [ status_code |-> 200,
           response |-> ai_response,
           risk_assessment |-> prompt_guard_result,
           compliance_status |-> audit_result.compliance_status,
           audit_trail |->
             << prompt_guard_result, policy_result, audit_result,
                advisory_result >>,
           recommendations |-> advisory_result.recommendations ])
  /\ pc' = "done"
  /\ UNCHANGED << policy_tables, served, active_sessions, auth_result,
                  store_mod, log_result, user_info, prompt, context, guard_mod,
                  prompt_guard_result, policy_result, ai_response, audit_mod,
                  audit_result, advisory_result, audit_log, calls >>

Init ==
  /\ pc = "received"
  /\ user_info = Unset
  /\ prompt \in SeqsUpTo(PromptPhrases, MaxPipelinePromptLen)
  /\ context \in PipelineContexts
  /\ guard_mod = Unset
  /\ prompt_guard_result = Unset
  /\ policy_result = Unset
  /\ ai_response = <<>>
  /\ audit_mod = Unset
  /\ audit_result = Unset
  /\ advisory_result = Unset
  /\ audit_log = <<>>
  /\ store_mod = Unset
  /\ log_result = Unset
  /\ http_response = Unset
  /\ calls = <<>>
  /\ policy_tables = policy_categories
  /\ served = 0
  /\ active_sessions = [s \in {} |-> Unset]
  /\ auth_result = Unset

Next ==
  \/ \E u \in {TestUser, NoUser} : Authenticate(u)
  \/ \E m \in PipelineModeration : Screen(m)
  \/ ReturnBlocked
  \/ \E now \in PipelineDates : EnforcePolicies(now)
  \/ \E g \in GeneratorOutcomes : GenerateResponse(g)
  \/ \E m \in PipelineModeration : AuditOutput(m)
  \/ ProvideGuidance
  \/ \E o \in LogOutcomes : LogInteraction(o)
  \/ ReturnResponse

Spec == Init /\ [][Next]_vars

(***************************************************************************)
(* Several requests, one after the other, served by the module-level       *)
(* agent instances of main.py                                              *)
(***************************************************************************)
MaxRequests == 1

\* the handler is entered again: the request and the handler's locals are
\* new, the agent instances and their tables are the ones the earlier
\* requests left behind.  audit_log restarts: it lists the records this
\* request hands to the storage collaborator.
NextRequest ==
  /\ pc = "done"
  /\ served < MaxRequests
  /\ served' = served + 1
  /\ pc' = "received"
  /\ prompt' \in SeqsUpTo(PromptPhrases, MaxPipelinePromptLen)
  /\ context' \in PipelineContexts
  /\ user_info' = Unset
  /\ guard_mod' = Unset
  /\ prompt_guard_result' = Unset
  /\ policy_result' = Unset
  /\ ai_response' = <<>>
  /\ audit_mod' = Unset
  /\ audit_result' = Unset
  /\ advisory_result' = Unset
  /\ audit_log' = <<>>
  /\ store_mod' = Unset
  /\ log_result' = Unset
  /\ http_response' = Unset
  /\ calls' = <<>>
  /\ UNCHANGED << policy_tables, active_sessions, auth_result >>

SpecShared == Init /\ [][Next \/ NextRequest]_vars

(***************************************************************************)
(* The auditor alone, over every response and every collaborator behaviour *)
(***************************************************************************)
\* the original_prompt values the auditor is run against
AuditPrompts == {<<>>} \cup {<<p>> : p \in PromptPhrases}

InitAudit ==
  /\ pc = "generated"
  /\ user_info = TestUser
  /\ prompt \in AuditPrompts
  /\ context = [c \in {} |-> ""]
  /\ guard_mod = Unset
  /\ prompt_guard_result = Unset
  /\ policy_result = Unset
  /\ ai_response \in SeqsUpTo(ResponsePhrases, MaxResponseLen)
  /\ audit_mod = Unset
  /\ audit_result = Unset
  /\ advisory_result = Unset
  /\ audit_log = <<>>
  /\ store_mod = Unset
  /\ log_result = Unset
  /\ http_response = Unset
  /\ calls = <<>>
  /\ policy_tables = policy_categories
  /\ served = 0
  /\ active_sessions = [s \in {} |-> Unset]
  /\ auth_result = Unset

NextAudit == \E m \in ModerationOutcomes : AuditOutput(m)

SpecAudit == InitAudit /\ [][NextAudit]_vars

(***************************************************************************)
(* The recorder alone: log_interaction applied to the results of the       *)
(* earlier stages, a prompt longer than 1000 characters included           *)
(***************************************************************************)
LongPromptPhrases == 27

\* one phrase repeated until the prompt is longer than LargeRequestLength
LongPrompt ==
  [i \in 1..LongPromptPhrases |-> "medical diagnosis and health treatment"]


InitLog ==
  /\ pc = "advised"
  /\ user_info = TestUser
  /\ prompt \in (AuditPrompts \cup {LongPrompt})
  /\ context = [c \in {} |-> ""]
  /\ guard_mod \in PipelineModeration
  /\ prompt_guard_result = analyze_prompt(prompt, user_info.user_id, guard_mod)
  /\ policy_result
       \in {enforce_policies(policy_categories, prompt, user_info, context, now) :
              now \in PipelineDates}
  /\ ai_response \in PipelineResponses
  /\ audit_mod \in PipelineModeration
  /\ audit_result
       = audit_output(prompt, ai_response, user_info.user_id, audit_mod)
  /\ advisory_result
       = provide_guidance(prompt, ai_response, prompt_guard_result,
                          audit_result)
  /\ audit_log = <<>>
  /\ store_mod = Unset
  /\ log_result = Unset
  /\ http_response = Unset
  /\ calls = <<>>
  /\ policy_tables = policy_categories
  /\ served = 0
  /\ active_sessions = [s \in {} |-> Unset]
  /\ auth_result = Unset

NextLog == \E o \in LogOutcomes : LogInteraction(o)

SpecLog == InitLog /\ [][NextLog]_vars

(***************************************************************************)
(* The policy engine alone, over user-info maps, contexts and dates        *)
(***************************************************************************)
PolicyUsers ==
  { [user_id |-> "test_user_001", role |-> r]
      : r \in PolicyRoleNames \cup {"analyst"} \cup UnhashableValues }
  \cup { [user_id |-> "test_user_001"] }

PolicyContexts ==
  { [c \in {} |-> ""],
    [data_type |-> "personal"],
    [industry |-> "finance"],
    [industry |-> "healthcare"],
    [payment_processing |-> "True"],
    [industry |-> "retail", data_type |-> "medical"],
    [data_type |-> "public"],
    [industry |-> "finance", payment_processing |-> "True"],
    [industry |-> "healthcare", payment_processing |-> "True",
     data_type |-> "financial"] }

PolicyDates ==
  { [year |-> 2025, month |-> 6, day |-> 20],
    [year |-> 2025, month |-> 7, day |-> 10],
    [year |-> 2024, month |-> 11, day |-> 5] }


InitPolicy ==
  /\ pc = "screened"
  /\ user_info \in PolicyUsers
  /\ prompt \in {<<>>, <<"What is the weather today?">>}
  /\ context \in PolicyContexts
  /\ guard_mod =
       [ ctor |-> "ok", comprehend |-> "ok", pii |-> 0,
         bedrock |-> [ kind |-> "json", flagged |-> FALSE,
                       categories |-> ZeroCategories, confidence |-> 720 ] ]
  /\ prompt_guard_result = analyze_prompt(prompt, user_info.user_id, guard_mod)
  /\ policy_result = Unset
  /\ ai_response = <<>>
  /\ audit_mod = Unset
  /\ audit_result = Unset
  /\ advisory_result = Unset
  /\ audit_log = <<>>
  /\ store_mod = Unset
  /\ log_result = Unset
  /\ http_response = Unset
  /\ calls = <<"analyze_prompt">>
  /\ policy_tables = policy_categories
  /\ served = 0
  /\ active_sessions = [s \in {} |-> Unset]
  /\ auth_result = Unset

NextPolicy == \E now \in PolicyDates : EnforcePolicies(now)

SpecPolicy == InitPolicy /\ [][NextPolicy]_vars

(***************************************************************************)
(* AuthService: authenticate_user, verify_token and logout on the session  *)
(* table.  A token is what jwt.decode makes of it: whether the signature    *)
(* verifies, whether it is past its exp, and the claims of its payload.     *)
(* A hash value is a digest Sha256(password) or the empty string.           *)
(***************************************************************************)
\* the simulated user database of _get_user_info
auth_users ==
  [ admin_001 |-> [ user_id |-> "admin_001", username |-> "admin",
                    role |-> "admin", active |-> TRUE ],
    manager_001 |-> [ user_id |-> "manager_001", username |-> "manager",
                      role |-> "manager", active |-> TRUE ],
    analyst_001 |-> [ user_id |-> "analyst_001", username |-> "analyst",
                      role |-> "analyst", active |-> TRUE ],
    user_001 |-> [ user_id |-> "user_001", username |-> "user",
                   role |-> "user", active |-> TRUE ] ]

\* _get_user_by_username
username_mapping ==
  [ admin |-> "admin_001", manager |-> "manager_001",
    analyst |-> "analyst_001", user |-> "user_001" ]

\* user_info.get("password_hash", "") with users that carry the digest of
\* their password
password_hash_stored(user) == Sha256("secret")

\* user_info.get("password_hash", ""): "" is written [empty_string |-> TRUE]
password_hash(user) ==
  IF "password_hash" \in DOMAIN user THEN user.password_hash
  ELSE [empty_string |-> TRUE]

\* _verify_session; session_expired: utcnow() is past the session's
\* expires_at.  Returns its value and the session table it leaves.
verify_session(sessions, session_id, user_id, session_expired) ==
  IF session_id = "None" \/ session_id \notin DOMAIN sessions
    THEN [valid |-> FALSE, sessions |-> sessions]
  ELSE IF sessions[session_id].user_id # user_id
          \/ ~ sessions[session_id].active
    THEN [valid |-> FALSE, sessions |-> sessions]
  ELSE IF session_expired
    THEN [ valid |-> FALSE,
           sessions |->
             [s \in DOMAIN sessions \ {session_id} |-> sessions[s]] ]
  ELSE [valid |-> TRUE, sessions |-> sessions]

\* authenticate_user; session_id: the id _create_session draws
AuthenticateUser(username, password, session_id) ==
  LET known == username \in DOMAIN username_mapping
      user == auth_users[username_mapping[username]]
      verified == known /\ Sha256(password) = password_hash(user)
  IN  /\ pc = "auth"
      /\ active_sessions' =
           IF verified
             THEN [ s \in DOMAIN active_sessions \cup {session_id} |->
                      IF s = session_id
                        THEN [ session_id |-> session_id,
                               user_id |-> user.user_id, active |-> TRUE ]
                        ELSE active_sessions[s] ]
             ELSE active_sessions
      /\ auth_result' =
           [ op |-> "authenticate_user", username |-> username,
             password |-> password,
             result |->
               IF verified
                 THEN [ user_id |-> user.user_id, username |-> username,
                        role |-> user.role, session_id |-> session_id ]
                 ELSE NoUser ]
      /\ UNCHANGED << pc, user_info, prompt, context, guard_mod,
                      prompt_guard_result, policy_result, ai_response,
                      audit_mod, audit_result, advisory_result, audit_log,
                      store_mod, log_result, http_response, calls,
                      policy_tables, served >>

\* verify_token
VerifyToken(token, session_expired) ==
  LET known ==
        /\ token.user_id \in DOMAIN auth_users
        /\ auth_users[token.user_id].active
      checked ==
        verify_session(active_sessions, token.session_id, token.user_id,
                       session_expired)
      decoded == token.signed /\ ~ token.expired
  IN  /\ pc = "auth"
      /\ active_sessions' =
           IF decoded /\ known THEN checked.sessions ELSE active_sessions
      /\ auth_result' =
           [ op |-> "verify_token", token |-> token,
             session_expired |-> session_expired,
             result |->
               IF decoded /\ known /\ checked.valid
                 THEN [ user_id |-> token.user_id, role |-> token.role,
                        session_id |-> token.session_id ]
                 ELSE NoUser ]
      /\ UNCHANGED << pc, user_info, prompt, context, guard_mod,
                      prompt_guard_result, policy_result, ai_response,
                      audit_mod, audit_result, advisory_result, audit_log,
                      store_mod, log_result, http_response, calls,
                      policy_tables, served >>

\* logout
Logout(session_id) ==
  /\ pc = "auth"
  /\ active_sessions' =
       [s \in DOMAIN active_sessions \ {session_id} |-> active_sessions[s]]
  /\ auth_result' =
       [ op |-> "logout", session_id |-> session_id,
         result |-> [removed |-> session_id \in DOMAIN active_sessions] ]
  /\ UNCHANGED << pc, user_info, prompt, context, guard_mod,
                  prompt_guard_result, policy_result, ai_response,
                  audit_mod, audit_result, advisory_result, audit_log,
                  store_mod, log_result, http_response, calls,
                  policy_tables, served >>

InitAuth ==
  /\ pc = "auth"
  /\ user_info = Unset
  /\ prompt = <<>>
  /\ context = [c \in {} |-> ""]
  /\ guard_mod = Unset
  /\ prompt_guard_result = Unset
  /\ policy_result = Unset
  /\ ai_response = <<>>
  /\ audit_mod = Unset
  /\ audit_result = Unset
  /\ advisory_result = Unset
  /\ audit_log = <<>>
  /\ store_mod = Unset
  /\ log_result = Unset
  /\ http_response = Unset
  /\ calls = <<>>
  /\ policy_tables = policy_categories
  /\ served = 0
  /\ active_sessions = [s \in {} |-> Unset]
  /\ auth_result = Unset

SpecAuth ==
  /\ InitAuth
  /\ [][ \/ \E username \in DOMAIN username_mapping \cup {"nobody"},
               password \in {"secret", "admin", ""},
               session_id \in {"session_a", "session_b"} :
               AuthenticateUser(username, password, session_id)
         \/ \E token \in
                 [ signed : BOOLEAN, expired : BOOLEAN,
                   user_id : DOMAIN auth_users \cup {"ghost_001"},
                   role : {"admin", "user"},
                   session_id : {"None", "session_a"} ],
               session_expired \in BOOLEAN :
               VerifyToken(token, session_expired)
         \/ \E session_id \in {"session_a", "session_b"} :
               Logout(session_id) ]_vars

(***************************************************************************)
(* Properties of the handler (checked under Spec)                          *)
(***************************************************************************)

\* C1: on every authenticated request the audit recorder has run by the time
\* the response is returned, the early block on a high-risk prompt included.
C1_LoggedBeforeResponse ==
  (pc = "done" /\ http_response.status_code = 200)
    => /\ "log_interaction" \in Range(calls)
       /\ Len(audit_log) = 1

\* C2: no text-valued field of a record handed to storage, the embedded
\* policy, audit and advisory results included, is the raw prompt or the raw
\* response of the request.
C2_NoRawTextInRecord ==
  \A i \in 1..Len(audit_log) :
    LET r == audit_log[i]
        texts ==
          { r.policy_result.modified_context.original_prompt,
            r.advisory_result.recommendations,
            r.advisory_result.alternatives,
            r.advisory_result.required_disclaimers,
            r.advisory_result.compliance_requirements }
    IN  \A raw \in {prompt, ai_response} \ {<<>>} : raw \notin texts

\* C6: the handler short-circuits exactly when the screener returns high:
\* then the answer is the fixed blocked message with status "blocked" and no
\* later stage was invoked; on medium or low every later stage ran in order,
\* the generated text is returned and nothing else (no review queue) ran.
C6_ShortCircuitOnlyOnHigh ==
  (pc = "done" /\ http_response.status_code = 200)
    => IF prompt_guard_result.risk_level = "high"
         THEN /\ http_response.compliance_status = "blocked"
              /\ http_response.response = <<BlockedMessage>>
              /\ calls = <<"analyze_prompt">>
         ELSE /\ calls = << "analyze_prompt", "enforce_policies",
                            "generate_response", "audit_output",
                            "provide_guidance", "log_interaction" >>
              /\ http_response.response = ai_response
              /\ http_response.compliance_status
                   = audit_result.compliance_status
              /\ http_response.compliance_status # "blocked"

\* a high-risk request answered with the blocked message
C6_Witness ==
  /\ pc = "done"
  /\ prompt_guard_result # Unset
  /\ "error" \notin DOMAIN prompt_guard_result
  /\ prompt_guard_result.risk_level = "high"
  /\ http_response.compliance_status = "blocked"
  /\ http_response.response = <<BlockedMessage>>
  /\ calls = <<"analyze_prompt">>

\* C7: no field of the answer returned to the caller (risk_assessment, its
\* moderation result, any audit_trail entry) carries the text of an internal
\* exception.
C7_NoErrorTextReturned ==
  (pc = "done" /\ http_response.status_code = 200)
    => /\ "error" \notin DOMAIN http_response.risk_assessment
       /\ "error" \notin DOMAIN http_response.risk_assessment.moderation_result
       /\ \A i \in 1..Len(http_response.audit_trail) :
            "error" \notin DOMAIN http_response.audit_trail[i]

\* C27: within one request the stages run strictly in the order screener,
\* policy engine, generation, content auditor, advisory composer, audit
\* recorder, each starting only after its predecessor has returned; an audit
\* record is stored only after the screener, policy, generation, auditor and
\* advisory stages of the same request have all completed.
C27_StagesInOrder ==
  LET order ==
        << "analyze_prompt", "enforce_policies", "generate_response",
           "audit_output", "provide_guidance", "log_interaction" >>
      results ==
        << prompt_guard_result, policy_result, ai_response, audit_result,
           advisory_result, log_result >>
  IN  /\ Len(calls) <= Len(order)
      /\ calls = SubSeq(order, 1, Len(calls))
      /\ \A i \in 1..Len(calls) : i # 3 => results[i] # Unset
      /\ audit_log # <<>>
           => /\ calls = order
              /\ \A i \in {1, 2, 4, 5} : results[i] # Unset

C27_Witness ==
  /\ pc = "done"
  /\ Len(audit_log) = 1
  /\ Len(calls) = 6
  /\ calls[6] = "log_interaction"

(***************************************************************************)
(* Properties of consecutive requests (checked under SpecShared)           *)
(***************************************************************************)

C3_AllowlistPrecedence ==
  (pc = "screened" /\ is_legitimate(prompt))
    => /\ prompt_guard_result.risk_level = "low"
       /\ prompt_guard_result.action = "allow"

\* C4: whenever a step inside analyze_prompt fails (collaborator construction,
\* a moderation call, scoring) the result is high / block with confidence 0.
C4_FailClosed ==
  (pc = "screened"
   /\ \/ guard_mod.ctor = "raise"
      \/ ModerationCallFailed(guard_mod)
      \/ "error" \in DOMAIN prompt_guard_result)
    => /\ prompt_guard_result.risk_level = "high"
       /\ prompt_guard_result.action = "block"
       /\ "analysis_confidence" \in DOMAIN prompt_guard_result
       /\ prompt_guard_result.analysis_confidence = 0

\* C5: when an external call inside AWSService.moderate_content fails, the
\* screener's moderation result is flagged and its risk factors include the
\* moderation contribution.
C5_ModerationFailureFlagged ==
  (pc = "screened" /\ ModerationCallFailed(guard_mod))
    => /\ prompt_guard_result.moderation_result.flagged
       /\ "content_moderation" \in prompt_guard_result.risk_factors

\* C8: the risk_score returned by analyze_prompt lies in [0, 1] for every
\* prompt and every moderation outcome.
C8_ScoreInUnitInterval ==
  pc = "screened"
    => /\ prompt_guard_result.risk_score >= 0
       /\ prompt_guard_result.risk_score <= One

\* a flagged prompt whose contributions add up to more than 1 before the cap
C8_Witness ==
  /\ pc = "screened"
  /\ "error" \notin DOMAIN prompt_guard_result
  /\ prompt_guard_result.moderation_result.status = "success"
  /\ prompt_guard_result.moderation_result.flagged
  /\ prompt_guard_result.moderation_result.categories # EmptyCategories
  /\ prompt_guard_result.moderation_result.categories["hate"] = Num(One)
  /\ analyze_text_content(prompt).total_risk_score > 0
  /\ prompt_guard_result.risk_score = One

\* C9: in every result of analyze_prompt the level is a function of the
\* score (high iff >= 0.8, medium iff 0.5 <= score < 0.8, low otherwise) and
\* the action a function of the level (block, flag_for_review, allow).
C9_LevelAndActionFromScore ==
  pc = "screened"
    => LET r == prompt_guard_result
       IN  /\ r.risk_level \in {"high", "medium", "low"}
           /\ (r.risk_level = "high") <=> (r.risk_score >= HighThreshold)
           /\ (r.risk_level = "medium")
                <=> (r.risk_score >= MediumThreshold
                     /\ r.risk_score < HighThreshold)
           /\ (r.risk_level = "low") <=> (r.risk_score < MediumThreshold)
           /\ (r.action = "block") <=> (r.risk_level = "high")
           /\ (r.action = "flag_for_review") <=> (r.risk_level = "medium")
           /\ (r.action = "allow") <=> (r.risk_level = "low")

\* a result whose score sits exactly on the medium threshold
C9_Witness ==
  /\ pc = "screened"
  /\ prompt_guard_result.risk_score = MediumThreshold
  /\ prompt_guard_result.risk_level = "medium"
  /\ prompt_guard_result.action = "flag_for_review"

\* C25: monotonicity: for every prompt and every fixed moderation outcome,
\* extending the prompt with text that matches additional risk-category
\* keywords never decreases the risk_score returned by analyze_prompt.
C25_Monotonicity ==
  pc = "screened"
    => \A e \in PromptPhrases :
         (\E c \in RiskCategoryNames :
            category_risks(c, <<e>>) \ category_risks(c, prompt) # {})
           => analyze_prompt(Append(prompt, e), user_info.user_id, guard_mod)
                .risk_score >= prompt_guard_result.risk_score

C10_StatusInRange ==
  pc = "audited"
    => audit_result.compliance_status
         \in {"compliant", "needs_review", "non_compliant"}

\* C11: when the auditor's moderation collaborator cannot be called, the
\* local keyword scan supplies the moderation result (high above 3 flags,
\* medium above 1, else low) and audit_output completes normally with it.
C11_FallbackScanCompletes ==
  (pc = "audited" /\ audit_mod.ctor = "raise")
    => LET flags == fallback_flags(ai_response)
           report ==
             generate_audit_report(
               assess_output_quality(ai_response),
               evaluate_fairness(ai_response),
               verify_compliance(prompt, ai_response),
               [risk_level |-> fallback_risk_level(flags)])
       IN  /\ "error" \notin DOMAIN audit_result
           /\ Len(audit_result.moderation_flags) = Cardinality(flags)
           /\ audit_result.compliance_status = report.overall_status

\* C12: when AWSService.moderate_content reports an error (risk_level
\* "unknown"), the moderation term of the composite audit score carries a
\* penalty: it is not scored like risk_level low.
C12_UnknownNotLenient ==
  (pc = "audited" /\ audit_mod.ctor = "ok" /\ audit_mod.comprehend = "raise")
    => /\ "error" \notin DOMAIN audit_result
       /\ moderation_penalty(
            auditor_moderate_content(ai_response, audit_mod).risk_level) > 0

\* C13: an audit whose compliance_score is below 0.8 never ends compliant.
C13_LowComplianceNotCompliant ==
  (pc = "audited"
   /\ "error" \notin DOMAIN audit_result
   /\ verify_compliance(prompt, ai_response).compliance_score
        < CompliantThreshold)
    => audit_result.compliance_status \in {"needs_review", "non_compliant"}

\* C14: quality_score is the arithmetic mean of the five dimension scores,
\* each capped at 1.0.
C14_QualityIsMeanOfFive ==
  (pc = "audited" /\ "error" \notin DOMAIN audit_result)
    => LET scores == assess_output_quality(ai_response).quality_scores
       IN  5 * audit_result.quality_score = SumOver(scores, DOMAIN scores)

(***************************************************************************)
(* Properties of the advisory and recorder stages (checked under Spec)     *)
(***************************************************************************)

\* C15: for a prompt classified into a domain, provide_guidance merges that
\* domain's bundle: its required disclaimers and alternatives are in the
\* result, and each matched compliance area contributes its educational
\* content.
C15_DomainBundleMerged ==
  advisory_result # Unset
    => LET ctx == analyze_context(prompt, ai_response)
           scenario ==
             [ medical |-> "medical_advice", financial |-> "financial_advice",
               legal |-> "legal_advice" ]
           knowledge == [hipaa |-> "hipaa_guidance", gdpr |-> "gdpr_guidance"]
       IN  /\ \A d \in Range(ctx.domains) :
                /\ Range(compliance_scenarios[scenario[d]].required_disclaimers)
                     \subseteq Range(advisory_result.required_disclaimers)
                /\ Range(compliance_scenarios[scenario[d]].alternatives)
                     \subseteq Range(advisory_result.alternatives)
           /\ \A a \in Range(ctx.compliance_areas) \cap DOMAIN knowledge :
                advisory_knowledge[knowledge[a]].keys
                  \subseteq advisory_result.educational_content.compliance_frameworks

\* C16: the retention_period reported by log_interaction is the longest
\* horizon over the frameworks the request triggers (personal data: GDPR,
\* medical: HIPAA, financial: SOX), and 365 days when none is triggered.
C16_RetentionLaw ==
  (log_result # Unset /\ "retention_period" \in DOMAIN log_result)
    => LET triggered ==
             (IF InPrompt("personal data", prompt) THEN {"gdpr"} ELSE {})
             \cup (IF InPrompt("medical", prompt) THEN {"hipaa"} ELSE {})
             \cup (IF InPrompt("financial", prompt) THEN {"sox"} ELSE {})
       IN  log_result.retention_period
             = IF triggered = {} THEN DefaultRetention
               ELSE MaxOf({retention_period[f] : f \in triggered})

\* C18: when _store_audit_record reports failure, the summary returned by
\* log_interaction carries an error-tagged audit id and no storage location.
C18_StorageFailureVisible ==
  (log_result # Unset /\ store_mod.kind = "built" /\ ~store_mod.stored)
    => /\ log_result.audit_id = ErrorAuditId
       /\ "storage_location" \notin DOMAIN log_result

\* C19: the answer returned for a request that reached the recorder is built
\* from what the earlier stages decided and is the same whether the record
\* was stored, storage failed, or log_interaction hit an internal error.
C19_DecisionIndependentOfPersistence ==
  (pc = "done" /\ log_result # Unset)
    => /\ http_response.status_code = 200
       /\ http_response.response = ai_response
       /\ http_response.risk_assessment = prompt_guard_result
       /\ http_response.compliance_status = audit_result.compliance_status
       /\ http_response.audit_trail
            = << prompt_guard_result, policy_result, audit_result,
                 advisory_result >>
       /\ http_response.recommendations = advisory_result.recommendations

\* a request answered after log_interaction ended in its error branch
C19_Witness ==
  /\ pc = "done"
  /\ log_result # Unset
  /\ store_mod.kind = "raise"
  /\ "error" \in DOMAIN log_result
  /\ http_response.status_code = 200
  /\ http_response.response = ai_response

(***************************************************************************)
(* Properties of the recorder (checked under SpecLog)                      *)
(***************************************************************************)

\* C17: a record whose risk assessment is high, whose output audit ended
\* non_compliant and whose prompt is longer than 1000 characters is reported
\* as an anomaly with at least three named anomalies.
C17_ScenarioD ==
  \A i \in 1..Len(audit_log) :
    LET r == audit_log[i]
    IN  (/\ r.risk_assessment.risk_level = "high"
         /\ r.audit_result.compliance_status = "non_compliant"
         /\ r.request_data.prompt_length > LargeRequestLength)
          => /\ check_for_anomalies(r).anomaly_detected
             /\ log_result.anomaly_detected
             /\ Len(check_for_anomalies(r).anomalies) >= 3

(***************************************************************************)
(* Properties of the policy engine (checked under SpecPolicy)              *)
(***************************************************************************)

\* C20: when enforce_policies hits an internal error it returns the
\* maximally restrictive rule set: the narrowest data-access scope, audit
\* required and override disallowed.
C20_PolicyFailClosed ==
  (pc = "enforced" /\ "error" \in DOMAIN policy_result)
    => LET rules == policy_result.enforcement_rules
       IN  /\ {"data_access", "audit_required", "policy_override"}
                \subseteq DOMAIN rules
           /\ rules.data_access \in {"public", "none"}
           /\ rules.audit_required
           /\ ~rules.policy_override

\* C21: in every result of enforce_policies the override flags of the
\* enforcement rules (policy_override, can_override_policies) are true only
\* when the resolved role is admin; every other role and every unknown role
\* name yields both flags not true, and the two flags agree.
C21_OverrideOnlyForAdmin ==
  pc = "enforced"
    => LET rules == policy_result.enforcement_rules
           policy_override ==
             "policy_override" \in DOMAIN rules /\ rules.policy_override
           can_override_policies ==
             "can_override_policies" \in DOMAIN rules
               /\ rules.can_override_policies
       IN  /\ policy_override <=> can_override_policies
           /\ policy_override <=> role_of(user_info) = "admin"

C21_Witness ==
  /\ pc = "enforced"
  /\ role_of(user_info) = "admin"
  /\ policy_result.enforcement_rules.policy_override
  /\ policy_result.enforcement_rules.can_override_policies

\* C22: merging time-based risk windows only tightens: the enforcement rules
\* produced while one or more windows apply are at least as strict as the
\* rules produced for the same role and context on a date with no window
\* (mfa_required, encryption_required and audit_logging never go from true
\* to false, session_timeout never increases, the data-access scope never
\* widens).
C22_WindowsOnlyTighten ==
  (pc = "enforced"
     /\ DOMAIN policy_result.risk_conditions \cap DOMAIN high_risk_periods # {})
    => LET rules == policy_result.enforcement_rules
           plain ==
             enforce_policies(policy_categories, prompt, user_info, context,
                              [year |-> 2025, month |-> 6, day |-> 20])
               .enforcement_rules
           width ==
             [ s \in {"public", "own", "department", "all"} |->
                 CASE s = "public" -> 0 [] s = "own" -> 1
                   [] s = "department" -> 2 [] s = "all" -> 3 ]
       IN  /\ DOMAIN rules = DOMAIN plain
           /\ "mfa_required" \in DOMAIN rules
                => /\ plain.mfa_required => rules.mfa_required
                   /\ plain.encryption_required => rules.encryption_required
                   /\ plain.audit_logging => rules.audit_logging
                   /\ rules.session_timeout <= plain.session_timeout
                   /\ width[rules.data_access] <= width[plain.data_access]

C22_Witness ==
  /\ pc = "enforced"
  /\ "financial_reporting" \in DOMAIN policy_result.risk_conditions
  /\ policy_result.compliance_status = "compliant"
  /\ policy_result.enforcement_rules.mfa_required
  /\ policy_result.enforcement_rules.audit_logging

C24_RegulatorySelection ==
  (pc = "enforced" /\ policy_result.compliance_status = "compliant")
    => LET policies == policy_result.enforced_policies.policies
           regulatory ==
             IF "regulatory" \in DOMAIN policies
               THEN DOMAIN policies.regulatory ELSE {}
       IN  /\ Get(context, "industry") = "finance" => "sox" \in regulatory
           /\ Get(context, "industry") = "healthcare"
                => "hipaa" \in regulatory
           /\ Get(context, "payment_processing") = "True"
                => "pci_dss" \in regulatory

\* C29: on every successful enforce_policies call the enforcement rules
\* session_timeout, mfa_required, encryption_required and audit_logging are
\* 3600, true, true and true for every role, context and date: they depend
\* neither on the applicable policy families nor on the active risk windows.
C29_FixedSecurityRules ==
  (pc = "enforced" /\ policy_result.compliance_status = "compliant")
    => LET rules == policy_result.enforcement_rules
       IN  /\ rules.session_timeout = 3600
           /\ rules.mfa_required
           /\ rules.encryption_required
           /\ rules.audit_logging

C29_Witness ==
  /\ pc = "enforced"
  /\ policy_result.compliance_status = "compliant"
  /\ "election_season" \in DOMAIN policy_result.risk_conditions
  /\ {"data_privacy", "regulatory"}
       \subseteq DOMAIN policy_result.enforced_policies.policies
  /\ role_of(user_info) = "guest"
  /\ policy_result.enforcement_rules.session_timeout = 3600

(***************************************************************************)
(* Properties of the authentication service (checked under SpecAuth)       *)
(***************************************************************************)

\* C30: in every state reachable through authenticate_user, verify_token
\* and logout the session table active_sessions is empty: authenticate_user
\* returns no token for every username and password, so no session is ever
\* created, and verify_token rejects every token, a correctly signed and
\* unexpired one included.
C30_NoSessionEver ==
  /\ DOMAIN active_sessions = {}
  /\ (auth_result # Unset
        /\ auth_result.op \in {"authenticate_user", "verify_token"})
       => auth_result.result = NoUser

C30_Witness ==
  /\ auth_result # Unset
  /\ auth_result.op = "verify_token"
  /\ auth_result.token.signed
  /\ ~ auth_result.token.expired
  /\ auth_result.token.user_id = "admin_001"
  /\ auth_result.token.session_id = "session_a"
  /\ auth_result.result = NoUser

====
